---------------------------- MODULE Spec2Model ----------------------------
(***************************************************************************)
(* Model of src/main.c: an explicit-stack depth-first search with a memo   *)
(* table over states (x, y, z) = (items decided, cumulative price,         *)
(* cumulative calories), deciding whether some subset of the n items costs *)
(* exactly j and weighs exactly k.                                         *)
(*                                                                         *)
(* One action models one step of the program: the scanf calls of main, the *)
(* three pushes at the entry of solve, one whole iteration of the while    *)
(* loop (split by the branch the iteration takes), the exit of the loop,   *)
(* and the printf/return of main.                                          *)
(*                                                                         *)
(* Inputs that the model does not draw: a negative n (the declaration      *)
(* "int prices[n]" is then undefined behaviour before solve is called),    *)
(* n above 500 and negative prices or calories.  Targets c, e are drawn    *)
(* from in-capacity values, from -1 and from the first over-capacity value.*)
(* On every input drawn, each index into table, prices and calories is     *)
(* within the array, and no addition overflows an int.                     *)
(***************************************************************************)
EXTENDS Integers, Sequences, FiniteSets

\* ---- program constants (src/main.c:4-6, 54-55)
MAX_DEPTH_X == 501
MAX_DEPTH_Y == 101
MAX_DEPTH_Z == 101
MAX_DEPTH_STACK == MAX_DEPTH_X * MAX_DEPTH_Y * MAX_DEPTH_Z
Unknown == 0
BadPath == 1

\* ---- bounds of the model
MaxN == 2       \* largest item count read
MaxP == 2       \* largest price / calories of one item
MaxJ == 3       \* largest in-capacity target read

VARIABLES
  pc,         \* position of the program: "start", "entry", "loop", "returned", "exit"
  n, j, k,    \* arguments of solve (main's n, c, e)
  prices, calories,   \* the item arrays, 1-indexed here (prices[i+1] is the C prices[i])
  stack,      \* stack.data[0 .. stack.offset-1]; stack.offset = Len(stack)
  table,      \* the set of cells of the memo table that hold BadPath
  x, y, z,    \* solve's locals: the state popped last
  result,     \* the value solve returned: "none" before it returns
  out,        \* the lines written to stdout
  status,     \* the exit status of the process: "none" before main returns
  history,    \* this call's pops in order: [state |-> <<x, y, z>>, what |-> the branch
              \* taken: "target" (line 95), "bad" (line 98) or "expand" (lines 101-119),
              \* depth |-> stack.offset after the three pops]
  order,      \* push order in use: "BuySkip" is the source's
  resultFirst, historyFirst,  \* SpecOrder: result and pops of the run in the source's order
  calls       \* number of invocations of solve so far

vars == <<pc, n, j, k, prices, calories, stack, table, x, y, z, result, out,
          status, history, order, resultFirst, historyFirst, calls>>

\* ---- the inputs main reads
\* target pairs <<c, e>>: every in-capacity pair up to MaxJ, and pairs with a
\* negative or an over-capacity component
Targets ==
  ((0..MaxJ) \X (0..MaxJ))
    \cup {<<-1, 0>>, <<0, -1>>, <<MAX_DEPTH_Y, 0>>, <<0, MAX_DEPTH_Z>>,
          <<MAX_DEPTH_Y, MAX_DEPTH_Z>>}

InCapacity ==
  /\ n \in 0..(MAX_DEPTH_X - 1)
  /\ j \in 0..(MAX_DEPTH_Y - 1)
  /\ k \in 0..(MAX_DEPTH_Z - 1)

\* ---- the traversal stack (dfs_stack_push, dfs_stack_pop)
dfs_stack_push(s, item) == Append(s, item)

dfs_stack_pop_peek(s) == [stack |-> s, item |-> s[Len(s)]]

dfs_stack_pop(s) == [stack |-> SubSeq(s, 1, Len(s) - 1), item |-> s[Len(s)]]

RECURSIVE PushAll(_, _)
PushAll(s, items) ==
  IF items = <<>> THEN s
  ELSE PushAll(dfs_stack_push(s, Head(items)), Tail(items))

PopStateZYX(s) ==
  LET p1 == dfs_stack_pop(s)
      p2 == dfs_stack_pop(p1.stack)
      p3 == dfs_stack_pop(p2.stack)
  IN  [stack |-> p3.stack, x |-> p3.item, y |-> p2.item, z |-> p1.item]

\* the three pops of lines 91-93: x first, then y, then z
PopState(s) ==
  LET p1 == dfs_stack_pop(s)
      p2 == dfs_stack_pop(p1.stack)
      p3 == dfs_stack_pop(p2.stack)
  IN  [stack |-> p3.stack, x |-> p1.item, y |-> p2.item, z |-> p3.item]

\* ---- the memo table
MemoNever(t, cx, cy, cz) == Unknown

MemoIgnoreZ(t, cx, cy, cz) ==
  IF \E c \in t : c[1] = cx /\ c[2] = cy THEN BadPath ELSE Unknown

Memo(t, cx, cy, cz) == IF <<cx, cy, cz>> \in t THEN BadPath ELSE Unknown

MarkNothing(t, cx, cy, cz) == t

\* line 119: table[x][y][z] = BadPath
Mark(t, cx, cy, cz) == t \cup {<<cx, cy, cz>>}

\* ---- the target test of line 95
IsTargetTypo(cx, cy, cz) == cx = n /\ cy = j /\ cz = j

IsTargetNoY(cx, cy, cz) == cx = n /\ cz = k

IsTargetNoZ(cx, cy, cz) == cx = n /\ cy = j

IsTargetAtMost(cx, cy, cz) == cx = n /\ cy <= j /\ cz <= k

IsTarget(cx, cy, cz) == cx = n /\ cy = j /\ cz = k

\* lines 95-98: the branch an iteration takes on the popped state; the target
\* test comes first, the memo lookup second
BranchMemoFirst(t, cx, cy, cz) ==
  IF Memo(t, cx, cy, cz) = BadPath THEN "bad"
  ELSE IF IsTarget(cx, cy, cz) THEN "target"
  ELSE "expand"

Branch(t, cx, cy, cz) ==
  IF IsTarget(cx, cy, cz) THEN "target"
  ELSE IF Memo(t, cx, cy, cz) = BadPath THEN "bad"
  ELSE "expand"

\* ---- successors (lines 101-117)
BuyValidOr(new_y, new_z) == new_y <= j \/ new_z <= k

BuyValidPriceOnly(new_y, new_z) == new_y <= j

BuyValidStrict(new_y, new_z) == new_y < j /\ new_z < k

BuyValid(new_y, new_z) == new_y <= j /\ new_z <= k

BuyPushNoCalories(cx, cy, cz) ==
  LET new_x == cx + 1
      new_y == cy + prices[cx + 1]
  IN  IF BuyValid(new_y, cz) THEN <<cz, new_y, new_x>> ELSE <<>>

\* the integers pushed for "buy the item": new_z, new_y, new_x, if within budget
BuyPush(cx, cy, cz) ==
  LET new_x == cx + 1
      new_y == cy + prices[cx + 1]
      new_z == cz + calories[cx + 1]
  IN  IF BuyValid(new_y, new_z) THEN <<new_z, new_y, new_x>> ELSE <<>>

SkipPushSameX(cx, cy, cz) == <<cz, cy, cx>>

\* the integers pushed for "do not buy": z, y, new_x
SkipPush(cx, cy, cz) == <<cz, cy, cx + 1>>

PushesElse(cx, cy, cz) ==
  IF cx + 1 <= n
  THEN IF BuyPush(cx, cy, cz) # <<>> THEN BuyPush(cx, cy, cz) ELSE SkipPush(cx, cy, cz)
  ELSE <<>>

PushesSwapped(cx, cy, cz) ==
  IF cx + 1 <= n THEN SkipPush(cx, cy, cz) \o BuyPush(cx, cy, cz) ELSE <<>>

\* the source's order: Buy first, Skip last
PushesBuySkip(cx, cy, cz) ==
  IF cx + 1 <= n THEN BuyPush(cx, cy, cz) \o SkipPush(cx, cy, cz) ELSE <<>>

\* the reordered variant: Skip first, Buy last
PushesSkipBuy(cx, cy, cz) ==
  IF cx + 1 <= n THEN SkipPush(cx, cy, cz) \o BuyPush(cx, cy, cz) ELSE <<>>

Pushes(cx, cy, cz) ==
  IF order = "BuySkip" THEN PushesBuySkip(cx, cy, cz) ELSE PushesSkipBuy(cx, cy, cz)

\* ---- the program
Init ==
  /\ pc = "start"
  /\ n = 0 /\ j = 0 /\ k = 0
  /\ prices = <<>> /\ calories = <<>>
  /\ stack = <<>>
  /\ table = {}
  /\ x = 0 /\ y = 0 /\ z = 0
  /\ result = "none"
  /\ out = <<>>
  /\ status = "none"
  /\ history = <<>>
  /\ order = "BuySkip"
  /\ resultFirst = "none"
  /\ historyFirst = <<>>
  /\ calls = 0

\* main, lines 130-140: read n, c, e and the items, call solve(n, c, e, ...)
ReadInput ==
  /\ pc = "start"
  /\ \E nn \in 0..MaxN, t \in Targets :
       \E ps \in [1..nn -> 0..MaxP], cs \in [1..nn -> 0..MaxP] :
          /\ n' = nn /\ j' = t[1] /\ k' = t[2]
          /\ prices' = ps /\ calories' = cs
  /\ pc' = "entry"
  /\ calls' = calls + 1
  /\ UNCHANGED <<stack, table, x, y, z, result, out, status, history, order,
                 resultFirst, historyFirst>>

\* solve, lines 86-88: push the initial cell
SolveEntry ==
  /\ pc = "entry"
  /\ stack' = PushAll(stack, <<0, 0, 0>>)
  /\ pc' = "loop"
  /\ UNCHANGED <<n, j, k, prices, calories, table, x, y, z, result, out, status,
                 history, order, resultFirst, historyFirst, calls>>

\* the record of one pop in history; depth is the offset left by the three pops
Pop(p, what) == [state |-> <<p.x, p.y, p.z>>, what |-> what, depth |-> Len(p.stack)]

\* lines 90-95: the popped state is the target, return true
LoopTarget ==
  /\ pc = "loop"
  /\ Len(stack) > 0
  /\ LET p == PopState(stack) IN
       /\ Branch(table, p.x, p.y, p.z) = "target"
       /\ stack' = p.stack
       /\ x' = p.x /\ y' = p.y /\ z' = p.z
       /\ history' = Append(history, Pop(p, "target"))
  /\ result' = TRUE
  /\ pc' = "returned"
  /\ UNCHANGED <<n, j, k, prices, calories, table, out, status, order,
                 resultFirst, historyFirst, calls>>

\* lines 90-98: the popped state is marked BadPath, continue
LoopBadPath ==
  /\ pc = "loop"
  /\ Len(stack) > 0
  /\ LET p == PopState(stack) IN
       /\ Branch(table, p.x, p.y, p.z) = "bad"
       /\ stack' = p.stack
       /\ x' = p.x /\ y' = p.y /\ z' = p.z
       /\ history' = Append(history, Pop(p, "bad"))
  /\ UNCHANGED <<pc, n, j, k, prices, calories, table, result, out, status,
                 order, resultFirst, historyFirst, calls>>

\* lines 90-119: push the successors of the popped state and mark it BadPath
LoopExpand ==
  /\ pc = "loop"
  /\ Len(stack) > 0
  /\ LET p == PopState(stack) IN
       /\ Branch(table, p.x, p.y, p.z) = "expand"
       /\ stack' = PushAll(p.stack, Pushes(p.x, p.y, p.z))
       /\ table' = Mark(table, p.x, p.y, p.z)
       /\ x' = p.x /\ y' = p.y /\ z' = p.z
       /\ history' = Append(history, Pop(p, "expand"))
  /\ UNCHANGED <<pc, n, j, k, prices, calories, result, out, status, order,
                 resultFirst, historyFirst, calls>>

\* lines 90, 121: the stack is empty, return false
LoopExit ==
  /\ pc = "loop"
  /\ Len(stack) = 0
  /\ result' = FALSE
  /\ pc' = "returned"
  /\ UNCHANGED <<n, j, k, prices, calories, stack, table, x, y, z, out, status,
                 history, order, resultFirst, historyFirst, calls>>

MessageSwapped(success) == IF success THEN "No" ELSE "Yes"

Message(success) == IF success THEN "Yes" ELSE "No"

\* main, lines 141-148: print the answer, return 0
MainPrint ==
  /\ pc = "returned"
  /\ out' = Append(out, Message(result))
  /\ status' = 0
  /\ pc' = "exit"
  /\ UNCHANGED <<n, j, k, prices, calories, stack, table, x, y, z, result,
                 history, order, resultFirst, historyFirst, calls>>

Solve == SolveEntry \/ LoopTarget \/ LoopBadPath \/ LoopExpand \/ LoopExit

Next == ReadInput \/ Solve \/ MainPrint

Spec == Init /\ [][Next]_vars

\* ---- the two push orders run on the same input, each from fresh state
\* After the run in the source's order has returned, the same input is solved
\* again with the Skip successor pushed first and the Buy successor last, on a
\* stack and a memo table of its own.
RunReordered ==
  /\ pc = "returned"
  /\ order = "BuySkip"
  /\ order' = "SkipBuy"
  /\ resultFirst' = result
  /\ historyFirst' = history
  /\ stack' = <<>>
  /\ table' = {}
  /\ x' = 0 /\ y' = 0 /\ z' = 0
  /\ result' = "none"
  /\ history' = <<>>
  /\ pc' = "entry"
  /\ UNCHANGED <<n, j, k, prices, calories, out, status, calls>>

NextOrder == ReadInput \/ Solve \/ RunReordered

SpecOrder == Init /\ [][NextOrder]_vars

\* ---- solve invoked again in the same process
\* After a call on an in-capacity input has returned, a caller invokes solve
\* a second time on the same items with other in-capacity targets (here for
\* item lists shorter than MaxN).  stack and table are the globals of lines 61
\* and 66: solve does not reset them, so the call starts with whatever the
\* previous call left.
SolveAgain ==
  /\ pc = "returned"
  /\ InCapacity
  /\ calls = 1
  /\ n < MaxN
  /\ \E c \in 0..MaxJ, e \in 0..MaxJ : j' = c /\ k' = e
  /\ calls' = calls + 1
  /\ result' = "none"
  /\ history' = <<>>
  /\ pc' = "entry"
  /\ UNCHANGED <<n, prices, calories, stack, table, x, y, z, out, status, order,
                 resultFirst, historyFirst>>

NextRepeat == ReadInput \/ Solve \/ SolveAgain

SpecRepeat == Init /\ [][NextRepeat]_vars

\* ---- what the claims are stated with
Returned == pc \in {"returned", "exit"}

RECURSIVE Sum(_, _)
Sum(f, S) ==
  IF S = {} THEN 0
  ELSE LET i == CHOOSE e \in S : TRUE IN f[i] + Sum(f, S \ {i})

\* some subset of the items costs exactly c and weighs exactly e
SubsetSumsTo(c, e) ==
  \E S \in SUBSET (1..n) : Sum(prices, S) = c /\ Sum(calories, S) = e

AllItemsZero == \A i \in 1..n : prices[i] = 0 /\ calories[i] = 0

TargetState == <<n, j, k>>

\* the cells (x, y, z) with 0 <= x <= n, 0 <= y <= j, 0 <= z <= k
Lattice == (0..n) \X (0..j) \X (0..k)

\* a pop that pushes marks one more cell of the lattice and grows the stack by
\* at most 3 entries (3 popped, at most 6 pushed); any other pop shrinks it by 3
Rank == 4 * Cardinality(Lattice \ table) + Len(stack)

\* C1: for an in-capacity input with non-negative items, solve started on an
\* all-Unknown table and an empty stack returns true if and only if some subset
\* of the items has prices summing to exactly j and calories summing to
\* exactly k.
C1_SolveDecidesSubsetSum ==
  (Returned /\ InCapacity) => (result = TRUE <=> SubsetSumsTo(j, k))

C1_Witness ==
  /\ pc = "returned" /\ InCapacity /\ result = TRUE
  /\ n >= 2 /\ j > 0 /\ k > 0
  /\ \E i \in DOMAIN history : history[i].what = "bad"

\* C2: on an in-capacity input the search loop terminates.  Every iteration
\* either returns or strictly decreases Rank, a natural number, and leaves a
\* stack of whole states, so that the loop has its next step to take (a pop of
\* three entries, or the exit on the empty stack); when solve returns, either
\* the target was popped and the result is true, or the stack is empty and the
\* result is false.
C2_LoopStep ==
  (pc = "loop" /\ InCapacity) =>
     /\ Rank' >= 0
     /\ \/ pc' = "loop" /\ Rank' < Rank /\ Len(stack') % 3 = 0
        \/ /\ pc' = "returned"
           /\ \/ result' = TRUE /\ <<x', y', z'>> = TargetState
              \/ result' = FALSE /\ stack' = <<>>

C2_LoopTerminates == [][C2_LoopStep]_vars

C2_Witness ==
  /\ pc = "returned" /\ InCapacity /\ result = FALSE
  /\ Len(history) >= 5
  /\ stack = <<>>

\* C3: with n = 0, solve returns true if and only if j = 0 and k = 0; the
\* origin is the only state ever popped and nothing is pushed after it.
C3_NoItems ==
  n = 0 =>
    /\ Returned => (result = TRUE <=> (j = 0 /\ k = 0))
    /\ Len(history) <= 1
    /\ history # <<>> => (history[1].state = <<0, 0, 0>> /\ stack = <<>>)
    /\ (pc = "loop" /\ history = <<>>) => stack = <<0, 0, 0>>

C3_Witness ==
  /\ n = 0 /\ pc = "returned" /\ result = TRUE
  /\ history = <<[state |-> <<0, 0, 0>>, what |-> "target", depth |-> 0]>>

\* C4: when every item has price 0 and calories 0, solve returns true if and
\* only if j = 0 and k = 0, whatever n is.
C4_AllZeroItems ==
  (Returned /\ AllItemsZero) => (result = TRUE <=> (j = 0 /\ k = 0))

C4_Witness ==
  /\ pc = "returned" /\ AllItemsZero /\ n >= 2
  /\ result = TRUE
  /\ Len(history) = n + 1

\* C5: on an in-capacity input, solve with Skip pushed first and Buy last
\* returns the same value as solve with Buy pushed first and Skip last, each
\* run from fresh state.
C5_PushOrderIrrelevant ==
  (pc = "returned" /\ order = "SkipBuy" /\ InCapacity) => result = resultFirst

C5_Witness ==
  /\ pc = "returned" /\ order = "SkipBuy" /\ InCapacity
  /\ result = TRUE /\ resultFirst = TRUE
  /\ Len(history) # Len(historyFirst)

\* C6: solve succeeds on an exact match only.  On an in-capacity input with no
\* subset summing to exactly (j, k) it returns false, even though a subset
\* sums to smaller targets; it returns true only on popping (n, j, k); and a
\* popped state (n, y, z) with y < j or z < k is not taken for the target: it
\* is marked BadPath.
C6_ExactMatchOnly ==
  InCapacity =>
    /\ (Returned /\ ~SubsetSumsTo(j, k)) => result = FALSE
    /\ (Returned /\ result = TRUE) => <<x, y, z>> = TargetState
    /\ \A i \in DOMAIN history :
         LET s == history[i].state IN
           (s[1] = n /\ (s[2] < j \/ s[3] < k)) =>
              (history[i].what # "target" /\ s \in table)

C6_Witness ==
  /\ pc = "returned" /\ InCapacity /\ result = FALSE
  /\ \E c \in 1..j, e \in 1..k : SubsetSumsTo(c, e)
  /\ \E i \in DOMAIN history :
       /\ history[i].state[1] = n
       /\ history[i].state[2] \in 1..j
       /\ history[i].state[3] \in 1..k

\* C7: at the start of every invocation of solve, a second invocation in the
\* same process included, every memo cell is Unknown and the stack is empty.
C7_FreshAtEntry == pc = "entry" => (table = {} /\ stack = <<>>)

\* C8: an input whose n, c or e is negative or over capacity is rejected
\* before the search: it never reaches the loop of solve, nothing is pushed or
\* marked for it, and the program does not end with the line No and status 0.
C8_InvalidInputRejected ==
  (pc # "start" /\ ~InCapacity) =>
    /\ pc # "loop"
    /\ stack = <<>> /\ table = {}
    /\ ~(out = <<"No">> /\ status = 0)

\* C9: on an in-capacity input the program writes exactly one line, Yes when
\* solve returned true and No when it returned false, and exits with status 0;
\* nothing is written before solve has returned.
C9_OutputContract ==
  /\ pc # "exit" => (out = <<>> /\ status = "none")
  /\ (pc = "exit" /\ InCapacity) =>
       /\ out = <<IF result = TRUE THEN "Yes" ELSE "No">>
       /\ status = 0

C9_Witness ==
  /\ pc = "exit" /\ InCapacity
  /\ out = <<"Yes">> /\ status = 0
  /\ n >= 1 /\ j >= 1

\* C10: within one call a memo cell only goes from Unknown to BadPath, at most
\* one cell per step, and never back; the successors of a state are pushed at
\* most once: the state expanded is Unknown before the step, BadPath after it,
\* and was never expanded earlier in the call.
C10_Step ==
  /\ table \subseteq table'
  /\ table' # table <=>
       (Len(history') = Len(history) + 1 /\ history'[Len(history')].what = "expand")
  /\ (Len(history') = Len(history) + 1 /\ history'[Len(history')].what = "expand") =>
       LET s == history'[Len(history')].state IN
         /\ s \notin table
         /\ table' = table \cup {s}
         /\ \A i \in DOMAIN history :
              history[i].what = "expand" => history[i].state # s

C10_MemoOnce == [][C10_Step]_vars

C10_Witness ==
  /\ pc = "loop"
  /\ \E i \in 1..n : prices[i] = 0 /\ calories[i] = 0
  /\ \E a, b \in DOMAIN history :
       /\ a < b
       /\ history[a].state = history[b].state
       /\ history[a].what = "expand"
       /\ history[b].what = "bad"

\* ---- states on the stack, states pushed, states reachable
\* the states held by a stack of whole states, bottom first: a state is pushed
\* as z, y, x, so that x is on top
StatesOn(s) ==
  [i \in 1..(Len(s) \div 3) |-> <<s[3 * i], s[3 * i - 1], s[3 * i - 2]>>]

Range(f) == {f[i] : i \in DOMAIN f}

InSolve == pc \in {"loop", "returned", "exit"}

\* the states this call has pushed so far: the origin and what each expansion pushed
PushedStates ==
  {<<0, 0, 0>>} \cup
    UNION {Range(StatesOn(Pushes(history[i].state[1], history[i].state[2],
                                 history[i].state[3]))) :
             i \in {a \in DOMAIN history : history[a].what = "expand"}}

\* s was popped and found to be the target, or popped and its cell is BadPath
Settled(s) ==
  \E i \in DOMAIN history :
     /\ history[i].state = s
     /\ (history[i].what = "target" \/ s \in table)

SkipOf(s) == <<s[1] + 1, s[2], s[3]>>

BuyOf(s) == <<s[1] + 1, s[2] + prices[s[1] + 1], s[3] + calories[s[1] + 1]>>

BuyInBudget(s) == BuyOf(s)[2] <= j /\ BuyOf(s)[3] <= k

\* the states reachable from s by Skip transitions and in-budget Buy transitions
RECURSIVE ReachFrom(_)
ReachFrom(s) ==
  {s} \cup
    IF s[1] < n
    THEN ReachFrom(SkipOf(s)) \cup (IF BuyInBudget(s) THEN ReachFrom(BuyOf(s)) ELSE {})
    ELSE {}

\* C11 as stated: when solve returns, every state it pushed has been popped
\* and found to be the target, or popped and its cell marked BadPath.
C11_AllPushedSettled ==
  (Returned /\ InCapacity) => \A s \in PushedStates : Settled(s)

\* C11 as amended: every pushed state has been popped (found to be the target,
\* or its cell marked BadPath) or is still on the stack; when solve returns
\* false none is still on the stack, so every pushed state is settled; when it
\* returns true the states still on the stack stay unpopped.
C11_PushedSettledOrOnStack ==
  (InSolve /\ InCapacity) =>
    /\ \A s \in PushedStates : Settled(s) \/ s \in Range(StatesOn(stack))
    /\ (Returned /\ result = FALSE) => \A s \in PushedStates : Settled(s)

C11_Witness ==
  /\ pc = "returned" /\ InCapacity /\ result = TRUE
  /\ \E s \in Range(StatesOn(stack)) :
       s \in PushedStates /\ s # TargetState /\ s \notin table /\ ~Settled(s)

\* C12: whenever a popped state is discarded because its cell is BadPath,
\* every state reachable from it by Skip and in-budget Buy transitions (the
\* state itself included) was popped earlier in the call, none of those pops
\* found the target, and the target is not reachable from it.
C12_DiscardedIsExhausted ==
  \A i \in DOMAIN history :
     history[i].what = "bad" =>
       /\ TargetState \notin ReachFrom(history[i].state)
       /\ \A r \in ReachFrom(history[i].state) :
            \E a \in 1..(i - 1) : history[a].state = r /\ history[a].what # "target"
       /\ \A a \in 1..(i - 1) : history[a].what # "target"

C12_Witness ==
  /\ InCapacity
  /\ \E i \in DOMAIN history :
       /\ history[i].what = "bad"
       /\ history[i].state[1] < n
       /\ Cardinality(ReachFrom(history[i].state)) >= 3

\* the step is one pop: history gains one record
PopStep == Len(history') = Len(history) + 1

LastPop == history'[Len(history')]

\* the successor states C13 lets an expansion of s push, in either order
SuccessorsOf(s) ==
  IF s[1] < n
  THEN IF BuyInBudget(s)
       THEN {<<BuyOf(s), SkipOf(s)>>, <<SkipOf(s), BuyOf(s)>>}
       ELSE {<<SkipOf(s)>>}
  ELSE {<<>>}

\* C13: a popped state that is neither the target nor BadPath is expanded: if
\* x < n the Skip successor is pushed unconditionally and the Buy successor
\* exactly when y + prices[x] <= j and z + calories[x] <= k; if x = n nothing
\* is pushed; in both cases the state is then marked BadPath.  Nothing else on
\* the stack changes.
C13_Step ==
  PopStep =>
    LET s == LastPop.state
        rest == SubSeq(stack, 1, LastPop.depth)
    IN  /\ LastPop.what = "expand" <=> (s # TargetState /\ s \notin table)
        /\ LastPop.what = "expand" =>
             /\ Len(stack') % 3 = 0
             /\ \E succ \in SuccessorsOf(s) : StatesOn(stack') = StatesOn(rest) \o succ
             /\ table' = table \cup {s}

C13_ExpansionRule == [][C13_Step]_vars

C13_Witness ==
  /\ pc = "loop"
  /\ \E a, b, c \in DOMAIN history :
       /\ history[a].what = "expand" /\ history[b].what = "expand"
       /\ history[c].what = "expand"
       /\ history[a].state[1] < n /\ BuyInBudget(history[a].state)
       /\ history[b].state[1] < n /\ ~BuyInBudget(history[b].state)
       /\ history[c].state[1] = n

\* C14: solve returns true exactly at the pop of (n, j, k): the pop of the
\* target returns true whatever its memo cell holds, the table is not touched
\* and nothing but the popped state leaves the stack; solve returns false only
\* on an empty stack, after a call in which no popped state was the target.
\* Checked with solve invoked twice, so that the target's cell can hold a
\* BadPath left by the first call.
C14_Step ==
  /\ (PopStep /\ LastPop.state = TargetState) =>
       /\ LastPop.what = "target"
       /\ result' = TRUE /\ pc' = "returned"
       /\ table' = table
       /\ stack' = SubSeq(stack, 1, Len(stack) - 3)
  /\ (pc = "loop" /\ pc' = "returned" /\ result' = TRUE) =>
       /\ PopStep /\ LastPop.state = TargetState
       /\ <<x', y', z'>> = TargetState
       /\ \A i \in DOMAIN history : history[i].state # TargetState
  /\ (pc = "loop" /\ pc' = "returned" /\ result' = FALSE) =>
       /\ stack = <<>> /\ stack' = <<>>
       /\ history' = history
       /\ \A i \in DOMAIN history : history[i].state # TargetState

C14_ReturnPoints == [][C14_Step]_vars

C14_Witness ==
  /\ pc = "returned" /\ result = TRUE /\ calls = 2
  /\ TargetState \in table
  /\ history[Len(history)].what = "target"

\* the pops at which an expansion pushed both successors
BothPushed == {i \in DOMAIN history :
                 /\ history[i].what = "expand"
                 /\ history[i].state[1] < n
                 /\ BuyInBudget(history[i].state)}

\* the pop of the Buy entry pushed by the expansion at pop i: the first later
\* pop that leaves the stack as the expansion found it (0 if there is none yet)
BuyPopOf(i) ==
  LET later == {b \in (i + 1)..Len(history) : history[b].depth = history[i].depth}
  IN  IF later = {} THEN 0 ELSE CHOOSE b \in later : \A c \in later : b <= c

\* C15: Skip is pushed last and popped first.  After an expansion that pushed
\* both successors the next pop is the Skip successor; every pop between it
\* and the pop of the Buy entry is a state reachable from the Skip successor,
\* and by the pop of the Buy entry every state reachable from the Skip
\* successor has been popped.  The first pops of a call are (0,0,0), (1,0,0),
\* ..., (n,0,0), as far as the call gets.
C15_SkipFirst ==
  /\ \A i \in BothPushed :
       LET K == SkipOf(history[i].state)
           B == BuyOf(history[i].state)
           b == BuyPopOf(i)
       IN  /\ i < Len(history) =>
                /\ history[i + 1].state = K
                /\ history[i + 1].depth = history[i].depth + 3
           /\ b # 0 =>
                /\ history[b].state = B
                /\ b > i + 1
                /\ \A m \in (i + 1)..(b - 1) : history[m].state \in ReachFrom(K)
                /\ \A r \in ReachFrom(K) : \E m \in 1..(b - 1) : history[m].state = r
  /\ \A i \in DOMAIN history : i <= n + 1 => history[i].state = <<i - 1, 0, 0>>

C15_Witness ==
  /\ pc = "loop"
  /\ Len(history) > n + 1
  /\ \E i \in BothPushed :
       /\ BuyPopOf(i) > i + 2
       /\ BuyOf(history[i].state) # SkipOf(history[i].state)

\* C16: on an in-capacity input the stack's preconditions hold at every step
\* of solve.  The offset is a multiple of 3 whenever the loop condition is
\* evaluated; it never exceeds 3 * (n + 1), which is below the capacity
\* 3 * MAX_DEPTH_STACK, so no push overflows; a pop happens only on at least
\* three entries, and it reads the state on top as it was pushed (x, then y,
\* then z) and leaves the entries below untouched.
C16_Step ==
  InCapacity =>
    /\ pc' = "loop" => Len(stack') % 3 = 0
    /\ Len(stack') <= 3 * (n' + 1)
    /\ 3 * (n' + 1) <= 3 * MAX_DEPTH_STACK
    /\ PopStep =>
         /\ Len(stack) >= 3
         /\ LastPop.state = StatesOn(stack)[Len(stack) \div 3]
         /\ LastPop.state \in PushedStates
         /\ LastPop.depth = Len(stack) - 3
         /\ SubSeq(stack', 1, LastPop.depth) = SubSeq(stack, 1, LastPop.depth)

C16_StackPreconditions == [][C16_Step]_vars

C16_Witness ==
  /\ pc = "loop" /\ InCapacity
  /\ Len(stack) >= 6
  /\ \E i \in DOMAIN history :
       /\ history[i].state[1] # history[i].state[2]
       /\ history[i].state[2] # history[i].state[3]
       /\ history[i].state[1] # history[i].state[3]

\* C17: on an in-capacity input every state on the stack or popped has
\* 0 <= x <= n, 0 <= y <= j and 0 <= z <= k, so that every table[x][y][z] read
\* or written is inside table, and every prices[x], calories[x] read (by an
\* expansion with x < n) is inside the arrays.
C17_StatesInLattice ==
  (InSolve /\ InCapacity) =>
    /\ Range(StatesOn(stack)) \subseteq Lattice
    /\ \A i \in DOMAIN history : history[i].state \in Lattice
    /\ table \subseteq Lattice
    /\ \A c \in table :
         c[1] < MAX_DEPTH_X /\ c[2] < MAX_DEPTH_Y /\ c[3] < MAX_DEPTH_Z
    /\ \A i \in DOMAIN history :
         (history[i].what = "expand" /\ history[i].state[1] < n) =>
            (history[i].state[1] + 1) \in (DOMAIN prices \cap DOMAIN calories)

C17_Witness ==
  /\ pc = "loop" /\ InCapacity /\ j > 0 /\ k > 0
  /\ \E s \in Range(StatesOn(stack)) : s[2] = j /\ s[3] = k /\ s[1] < n
  /\ \E i \in DOMAIN history :
       /\ history[i].what = "expand"
       /\ history[i].state[1] < n
       /\ ~BuyInBudget(history[i].state)

\* C18: at every point of a call started on an empty stack the stack holds at
\* most n + 1 states (3 * (n + 1) integers), the x components of the stacked
\* states do not decrease from bottom to top, and at most two stacked states
\* have the same x.
C18_StackShape ==
  InSolve =>
    LET st == StatesOn(stack) IN
      /\ Len(stack) = 3 * Len(st)
      /\ Len(st) <= n + 1
      /\ \A a, b \in DOMAIN st : a < b => st[a][1] <= st[b][1]
      /\ \A v \in 0..n : Cardinality({a \in DOMAIN st : st[a][1] = v}) <= 2

C18_Witness ==
  /\ pc = "loop" /\ n >= 2
  /\ LET st == StatesOn(stack) IN
       /\ Len(st) = n + 1
       /\ st[Len(st)][1] = st[Len(st) - 1][1]
       /\ st[1][1] < st[Len(st)][1]

\* C19: in a call started on an all-Unknown table the cell of the target
\* (n, j, k) is never marked BadPath: the target test comes before the memo
\* lookup and the mark, so that a popped target is never discarded.
C19_TargetNeverMarked ==
  /\ TargetState \notin table
  /\ \A i \in DOMAIN history :
       history[i].state = TargetState => history[i].what = "target"

C19_Witness ==
  /\ pc = "returned" /\ InCapacity /\ result = TRUE
  /\ j # k
  /\ Cardinality(table) >= 3
  /\ history[Len(history)].state = TargetState

\* some subset of the first cx items costs exactly cy and weighs exactly cz
Realizable(s) ==
  \E S \in SUBSET (1..s[1]) : Sum(prices, S) = s[2] /\ Sum(calories, S) = s[3]

\* C20: in a call started on an empty stack every state pushed (hence every
\* state on the stack, popped or marked) is realizable by a subset of the
\* first x items; and when solve returns false the BadPath cells are exactly
\* the states reachable from (0,0,0) by Skip and in-budget Buy transitions.
C20_PushedRealizable ==
  InSolve =>
    /\ \A s \in PushedStates \cup Range(StatesOn(stack)) \cup table : Realizable(s)
    /\ \A i \in DOMAIN history : Realizable(history[i].state)
    /\ (Returned /\ result = FALSE) => table = ReachFrom(<<0, 0, 0>>)

C20_Witness ==
  /\ pc = "returned" /\ InCapacity /\ result = FALSE
  /\ n >= 2
  /\ Cardinality(table) >= 5
  /\ \E s \in table : s[2] > 0 /\ s[3] > 0 /\ s[2] # s[3]

=============================================================================
